---------------------------- MODULE Spec2Model ----------------------------
(***************************************************************************)
(* StromPi3 power-loss watchdog: ShutdownSerial                            *)
(* (Serial/powershutdown_serial_systemd.py) and ShutdownSerialless         *)
(* (Serialless/powershutdown_serialless_systemd.py).                       *)
(*                                                                         *)
(* One watchdog instance is modelled; `variant` says which of the two      *)
(* classes it is.  Threads: the main thread (start, signal.pause and the   *)
(* signal handler), the serial listener thread or the GPIO callback        *)
(* thread, and one threading.Timer thread per entry of self.timers.        *)
(* Time is discrete; a Timer started with interval n expires when n ticks  *)
(* have passed, and no tick passes while an expired Timer has not run.     *)
(***************************************************************************)
EXTENDS Naturals, Sequences, FiniteSets

\* ----- bounds of the model ------------------------------------------------
\* self.timers grows without limit in the code; power-lost events are only
\* delivered while fewer than MaxTimers timers exist.
MaxTimers == 2
\* `timeout` (constructor parameter) ranges over 1..MaxTimeout ticks.
MaxTimeout == 2
\* `bounce` (constructor parameter) ranges over 1..MaxBounce ticks.
MaxBounce == 1

VARIABLES
    variant,       \* "serial" (ShutdownSerial) or "gpio" (ShutdownSerialless)
    timeout,       \* self.timeout
    bounce,        \* self.bounce (gpio)
    timers,        \* self.timers: sequence of Timer records
    mainPc,        \* main thread: "start", "pause", "woken", "exited"
    merr,          \* an exception escaped in the main thread
    serOpen,       \* self.ser.is_open (serial)
    lpc,           \* listener thread: "off", "loop", "body", "ended", "crashed"
    lerr,          \* an exception escaped in the listener / callback thread
    lastRaw,       \* the raw line the listener read last (<<>>: none yet)
    recovered,     \* a sentinel line read right after a decode failure was
                   \* dispatched to power_change
    gpioSetup,     \* GPIO mode set and edge detection registered (gpio)
    level,         \* current level of the pin (gpio)
    cbPending,     \* an accepted edge whose callback has not run yet (gpio)
    sinceEdge,     \* ticks since the last accepted edge, capped at bounce + 1
    edgeLevel,     \* the level the last accepted edge went to (gpio)
    reached,       \* power_change has run since the pin last changed level (gpio)
    calls,         \* number of os.system("sudo shutdown -h now") calls so far
    runCalls,      \* shutdown calls since the last handled power-restored event
    cleanRestore,  \* the last power event handled was a restore that came
                   \* before any call and before any expiry, no loss since
    stopped,       \* stop() has completed at least once
    afterStopCalls \* shutdown calls made after stop() completed

vars == <<variant, timeout, bounce, timers, mainPc, merr, serOpen, lpc, lerr,
          lastRaw, recovered, gpioSetup, level, cbPending, sinceEdge, edgeLevel, reached,
          calls, runCalls, cleanRestore, stopped, afterStopCalls>>

\* ----- serial lines --------------------------------------------------------
\* A raw line is a sequence of tokens: "BACK" stands for the bytes of
\* xxx--StromPiPowerBack--xxx, "SHUT" for xxxShutdownRaspberryPixxx, "NL" for
\* the newline, "txt" for other printable text and "BAD" for bytes that are
\* not valid UTF-8.  readline() returns at the first newline or at the read
\* timeout, so a line holds at most one "NL", at its end.
RawLines ==
    { <<"BACK", "NL">>, <<"SHUT", "NL">>, <<"txt", "BACK", "NL">>,
      <<"SHUT">>, <<"txt", "NL">>, <<"BAD", "NL">>, <<"BAD", "SHUT", "NL">> }

\* decode with errors="ignore": invalid bytes are skipped, nothing is raised
ValidToken(x) == x # "BAD"

DecodeIgnore(raw) ==
    [ok |-> TRUE, message |-> SelectSeq(raw, ValidToken)]

\* raw_msg.decode(encoding="UTF-8", errors="strict")
Decode(raw) ==
    IF \E i \in DOMAIN raw : raw[i] = "BAD"
    THEN [ok |-> FALSE, message |-> <<>>]
    ELSE [ok |-> TRUE, message |-> raw]

\* find of the sentinel without its newline
FindNoNewline(message, sentinel) ==
    \E i \in 1 .. Len(message) : message[i] = sentinel

\* message.find(<sentinel> + "\n") != -1
Find(message, sentinel) ==
    \E i \in 1 .. Len(message) - 1 :
        message[i] = sentinel /\ message[i + 1] = "NL"

\* What listen() does with a raw line: "back", "lost", "drop" (no sentinel
\* found) or "error" (UnicodeDecodeError caught).
Dispatch(raw) ==
    LET d == Decode(raw) IN
    IF ~d.ok THEN "error"
    ELSE IF Find(d.message, "BACK") THEN "back"
    ELSE IF Find(d.message, "SHUT") THEN "lost"
    ELSE "drop"

\* ----- threading.Timer -----------------------------------------------------
\* st: "waiting" (in finished.wait), "firing" (wait timed out and
\* finished.is_set() was found false; function not yet called), "done".
\* fin is the `finished` event.  age counts the ticks spent in the wait; it
\* is kept once the wait has timed out and dropped (0) when the wait is cancelled.
\* calls, pre and behind are history: the shutdown calls this timer made,
\* whether cancel() reached it while it was waiting, and for how many ticks the
\* oldest countdown still running had been running at start() (0: none was
\* running, or it was started in the same instant).
Live(t) == t.st = "waiting" /\ ~t.fin

\* a Timer constructed with interval 0 instead of self.timeout
NewTimerNoDelay(interval, lag) ==
    [st |-> "waiting", fin |-> FALSE, age |-> 0, interval |-> 0,
     calls |-> 0, pre |-> FALSE, behind |-> lag]

NewTimer(interval, lag) ==
    [st |-> "waiting", fin |-> FALSE, age |-> 0, interval |-> interval,
     calls |-> 0, pre |-> FALSE, behind |-> lag]

\* timer.cancel()
Cancel(t) ==
    [t EXCEPT !.fin = TRUE,
              !.pre = t.pre \/ (t.st = "waiting"),
              !.age = IF t.st = "waiting" THEN 0 ELSE t.age]

\* The age of the oldest live timer of ts, 0 when there is none.
Behind(ts) ==
    LET live == {i \in DOMAIN ts : Live(ts[i])}
    IN  IF live = {} THEN 0
        ELSE ts[CHOOSE i \in live : \A j \in live : i <= j].age

\* power_change whose cancel loop misses the oldest timer
PowerChangeSkipFirst(ts, power_on, tm) ==
    IF power_on
    THEN [i \in DOMAIN ts |-> IF i = 1 THEN ts[i] ELSE Cancel(ts[i])]
    ELSE Append(ts, NewTimer(tm, Behind(ts)))

\* power_change without the else: the power-on branch falls through to the
\* code that starts a timer
PowerChangeNoElse(ts, power_on, tm) ==
    LET cancelled == IF power_on THEN [i \in DOMAIN ts |-> Cancel(ts[i])] ELSE ts
    IN  Append(cancelled, NewTimer(tm, Behind(cancelled)))

\* power_change: the new value of self.timers
PowerChange(ts, power_on, tm) ==
    IF power_on
    THEN [i \in DOMAIN ts |-> Cancel(ts[i])]
    ELSE Append(ts, NewTimer(tm, Behind(ts)))

\* shutdown() that issues the command twice
ShutdownTwice(n) == n + 2

\* shutdown(): the number of shutdown commands issued after one more call
Shutdown(n) == n + 1


\* ----- initial state: after __init__, before start() ------------------------
Init ==
    /\ variant \in {"serial", "gpio"}
    /\ timeout \in 1 .. MaxTimeout
    /\ bounce \in (IF variant = "gpio" THEN 1 .. MaxBounce ELSE {0})
    /\ timers = <<>>
    /\ mainPc = "start"
    /\ merr = FALSE
    /\ serOpen = FALSE
    /\ lpc = "off"
    /\ lerr = FALSE
    /\ lastRaw = <<>>
    /\ recovered = FALSE
    /\ gpioSetup = FALSE
    /\ level = 1
    /\ cbPending = FALSE
    /\ sinceEdge = bounce + 1
    /\ edgeLevel = 1
    /\ reached = FALSE
    /\ calls = 0
    /\ runCalls = 0
    /\ cleanRestore = FALSE
    /\ stopped = FALSE
    /\ afterStopCalls = 0

Running == mainPc # "exited"

config == <<variant, timeout, bounce>>
serialVars == <<serOpen, lpc, lastRaw, recovered>>
gpioVars == <<gpioSetup, level, cbPending, sinceEdge, edgeLevel, reached>>
arbiterVars == <<timers, calls, runCalls, cleanRestore, afterStopCalls>>

\* ----- the arbiter: power_change as called by the listener or the callback --
HandlePower(power_on) ==
    /\ power_on \/ Len(timers) < MaxTimers
    /\ timers' = PowerChange(timers, power_on, timeout)
    /\ runCalls' = IF power_on THEN 0 ELSE runCalls
    /\ cleanRestore' = IF power_on
                       THEN calls = 0 /\ \A i \in DOMAIN timers : timers[i].st # "firing"
                       ELSE FALSE
    /\ UNCHANGED <<calls, afterStopCalls>>

\* ----- ShutdownSerial.start -------------------------------------------------
\* self.ser.open() raises: the exception is logged, start() sleeps and retries.
StartOpenFail ==
    /\ variant = "serial" /\ mainPc = "start" /\ ~serOpen
    /\ UNCHANGED vars

\* self.ser.open() succeeds.
StartOpenOk ==
    /\ variant = "serial" /\ mainPc = "start" /\ ~serOpen
    /\ serOpen' = TRUE
    /\ UNCHANGED <<config, arbiterVars, mainPc, merr, lpc, lerr, lastRaw, recovered, gpioVars, stopped>>

\* The while loop ends, listener_thread.start(); main goes on to signal.pause().
StartListener ==
    /\ variant = "serial" /\ mainPc = "start" /\ serOpen
    /\ lpc' = "loop"
    /\ mainPc' = "pause"
    /\ UNCHANGED <<config, arbiterVars, merr, serOpen, lerr, lastRaw, recovered, gpioVars, stopped>>

\* ----- ShutdownSerial.listen ------------------------------------------------
\* while self.ser.is_open
ListenCheck ==
    /\ variant = "serial" /\ Running /\ lpc = "loop"
    /\ lpc' = IF serOpen THEN "body" ELSE "ended"
    /\ UNCHANGED <<config, arbiterVars, mainPc, merr, serOpen, lerr, lastRaw, recovered, gpioVars, stopped>>

\* inWaiting() is 0: sleep and loop.
ListenIdle ==
    /\ variant = "serial" /\ Running /\ lpc = "body" /\ serOpen
    /\ lpc' = "loop"
    /\ UNCHANGED <<config, arbiterVars, mainPc, merr, serOpen, lerr, lastRaw, recovered, gpioVars, stopped>>

\* inWaiting() > 0: readline, decode, log, dispatch to power_change, sleep.
ListenRead(raw) ==
    /\ variant = "serial" /\ Running /\ lpc = "body" /\ serOpen
    /\ lastRaw' = raw
    /\ recovered' = (recovered \/ (lastRaw # <<>> /\ Dispatch(lastRaw) = "error"
                                      /\ Dispatch(raw) \in {"back", "lost"}))
    /\ lpc' = "loop"
    /\ CASE Dispatch(raw) = "back" -> HandlePower(TRUE)
         [] Dispatch(raw) = "lost" -> HandlePower(FALSE)
         [] OTHER -> UNCHANGED arbiterVars
    /\ UNCHANGED <<config, mainPc, merr, serOpen, lerr, gpioVars, stopped>>

\* The port was closed after the while test: inWaiting() raises in the thread.
ListenCrash ==
    /\ variant = "serial" /\ Running /\ lpc = "body" /\ ~serOpen
    /\ lpc' = "crashed"
    /\ lerr' = TRUE
    /\ UNCHANGED <<config, arbiterVars, mainPc, merr, serOpen, lastRaw, recovered, gpioVars, stopped>>

\* ----- ShutdownSerialless.start ---------------------------------------------
\* serial_port.open() raises: nothing catches it, the process ends.
StartSerialFail ==
    /\ variant = "gpio" /\ mainPc = "start"
    /\ merr' = TRUE
    /\ mainPc' = "exited"
    /\ UNCHANGED <<config, arbiterVars, serialVars, lerr, gpioVars, stopped>>

\* The serial handshake, GPIO.setmode, GPIO.setup and GPIO.add_event_detect.
StartGpio ==
    /\ variant = "gpio" /\ mainPc = "start"
    /\ gpioSetup' = TRUE
    /\ mainPc' = "pause"
    /\ UNCHANGED <<config, arbiterVars, serialVars, merr, lerr, level, cbPending,
                   sinceEdge, edgeLevel, reached, stopped>>

\* ----- the pin and the RPi.GPIO callback thread -----------------------------
\* The pin changes level.  With edge detection registered, the edge is accepted
\* when more than `bounce` has passed since the last accepted edge.
PinEdge ==
    /\ variant = "gpio" /\ Running
    /\ level' = 1 - level
    /\ IF gpioSetup /\ sinceEdge > bounce
       THEN cbPending' = TRUE /\ sinceEdge' = 0 /\ edgeLevel' = level'
       ELSE UNCHANGED <<cbPending, sinceEdge, edgeLevel>>
    /\ reached' = FALSE
    /\ UNCHANGED <<config, arbiterVars, serialVars, mainPc, merr, lerr, gpioSetup, stopped>>

\* power_change(pin) runs: it reads the pin now.  After GPIO.cleanup() the
\* read raises in the callback thread.
GpioCallback ==
    /\ variant = "gpio" /\ Running /\ cbPending
    /\ cbPending' = FALSE
    /\ IF gpioSetup
       THEN HandlePower(level = 1) /\ reached' = TRUE /\ UNCHANGED lerr
       ELSE lerr' = TRUE /\ UNCHANGED <<arbiterVars, reached>>
    /\ UNCHANGED <<config, serialVars, mainPc, merr, gpioSetup, level, sinceEdge, edgeLevel,
                   stopped>>

\* ----- stop / signal ----------------------------------------------------------
\* a stop path that itself runs the shutdown command
SignalShutsDown(sig) ==
    /\ Running
    /\ stopped' = TRUE
    /\ serOpen' = FALSE
    /\ gpioSetup' = FALSE
    /\ calls' = Shutdown(calls)
    /\ mainPc' = IF mainPc = "pause" THEN "woken" ELSE mainPc
    /\ UNCHANGED <<config, timers, runCalls, cleanRestore, afterStopCalls, merr, lpc, lerr,
                   lastRaw, recovered, level, cbPending, sinceEdge, edgeLevel, reached>>

\* signal(sig, frame): stop(), then the log lines.  In ShutdownSerialless the
\* SIGINT branch calls logger.info() without a message, which raises.
Signal(sig) ==
    /\ Running
    /\ stopped' = TRUE
    /\ serOpen' = FALSE
    /\ gpioSetup' = FALSE
    /\ IF variant = "gpio" /\ sig = "SIGINT"
       THEN merr' = TRUE /\ mainPc' = "exited"
       ELSE /\ UNCHANGED merr
            /\ mainPc' = IF mainPc = "pause" THEN "woken" ELSE mainPc
    /\ UNCHANGED <<config, arbiterVars, lpc, lerr, lastRaw, recovered, level, cbPending,
                   sinceEdge, edgeLevel, reached>>

\* signal.pause() has returned: the script ends and the process exits; the
\* listener and the timers are daemon threads and die with it.
MainExit ==
    /\ mainPc = "woken"
    /\ mainPc' = "exited"
    /\ UNCHANGED <<config, arbiterVars, serialVars, merr, lerr, gpioVars, stopped>>

\* ----- the Timer threads ----------------------------------------------------
\* finished.wait(interval) returns, then `if not self.finished.is_set()`.
TimerRun(i) ==
    /\ Running /\ i \in DOMAIN timers
    /\ timers[i].st = "waiting"
    /\ timers[i].fin \/ timers[i].age >= timers[i].interval
    /\ timers' = [timers EXCEPT ![i].st = IF timers[i].fin THEN "done" ELSE "firing"]
    /\ UNCHANGED <<config, calls, runCalls, cleanRestore, afterStopCalls, mainPc, merr,
                   serialVars, lerr, gpioVars, stopped>>

\* self.function() = shutdown(), then finished.set().
TimerFire(i) ==
    /\ Running /\ i \in DOMAIN timers
    /\ timers[i].st = "firing"
    /\ calls' = Shutdown(calls)
    /\ timers' = [timers EXCEPT ![i].st = "done", ![i].fin = TRUE,
                                ![i].calls = Shutdown(timers[i].calls)]
    /\ runCalls' = runCalls + (calls' - calls)
    /\ afterStopCalls' = IF stopped THEN afterStopCalls + (calls' - calls)
                         ELSE afterStopCalls
    /\ UNCHANGED <<config, cleanRestore, mainPc, merr, serialVars, lerr, gpioVars, stopped>>

\* ----- time -----------------------------------------------------------------
Due(t) == (Live(t) /\ t.age >= t.interval) \/ t.st = "firing"

Tick ==
    /\ Running /\ mainPc # "woken"
    /\ \A i \in DOMAIN timers : ~Due(timers[i])
    /\ \/ \E i \in DOMAIN timers : Live(timers[i])
       \/ sinceEdge <= bounce
    /\ timers' = [i \in DOMAIN timers |->
                    IF Live(timers[i]) THEN [timers[i] EXCEPT !.age = @ + 1]
                    ELSE timers[i]]
    /\ sinceEdge' = IF sinceEdge <= bounce THEN sinceEdge + 1 ELSE sinceEdge
    /\ UNCHANGED <<config, calls, runCalls, cleanRestore, afterStopCalls, mainPc, merr,
                   serialVars, lerr, gpioSetup, level, cbPending, edgeLevel, reached, stopped>>

Next ==
    \/ StartOpenFail
    \/ StartOpenOk
    \/ StartListener
    \/ ListenCheck
    \/ ListenIdle
    \/ \E raw \in RawLines : ListenRead(raw)
    \/ ListenCrash
    \/ StartSerialFail
    \/ StartGpio
    \/ PinEdge
    \/ GpioCallback
    \/ \E sig \in {"SIGINT", "SIGTERM"} : Signal(sig)
    \/ MainExit
    \/ \E i \in DOMAIN timers : TimerRun(i)
    \/ \E i \in DOMAIN timers : TimerFire(i)
    \/ Tick

Spec == Init /\ [][Next]_vars

\* The watchdog while nobody stops it: no signal arrives, so the port stays
\* open and the script never ends.
NextNoStop ==
    \/ StartOpenFail
    \/ StartOpenOk
    \/ StartListener
    \/ ListenCheck
    \/ ListenIdle
    \/ \E raw \in RawLines : ListenRead(raw)
    \/ StartSerialFail
    \/ StartGpio
    \/ PinEdge
    \/ GpioCallback
    \/ \E i \in DOMAIN timers : TimerRun(i)
    \/ \E i \in DOMAIN timers : TimerFire(i)
    \/ Tick

\* Time passes and every started Timer thread gets to run.
NoStopFairSpec ==
    /\ Init
    /\ [][NextNoStop]_vars
    /\ WF_vars(Tick)
    /\ \A i \in 1 .. MaxTimers : WF_vars(TimerRun(i)) /\ WF_vars(TimerFire(i))

\* ===== claims ===============================================================

\* C1: in every reachable state at most one shutdown timer is active (started,
\* not cancelled, not yet fired); a power-lost event handled while a timer is
\* running creates no second timer.
C1_AtMostOneActiveTimer ==
    Cardinality({i \in DOMAIN timers : Live(timers[i])}) <= 1

\* C2: within a run of power-lost events with no power-restored event in
\* between, shutdown() is called at most once.
C2_OneCallPerLostRun ==
    runCalls <= 1

\* C3: a timer that a power-restored event cancelled before its expiry never
\* calls shutdown(); after a restore handled before any expiry, and as long as
\* no power-lost event follows, the number of shutdown() calls is 0 and no
\* timer is live, however many power-lost events came before.
C3_RestoreBeforeExpiryCancels ==
    /\ \A i \in DOMAIN timers : timers[i].pre => timers[i].calls = 0
    /\ cleanRestore =>
          /\ calls = 0
          /\ \A i \in DOMAIN timers : ~Live(timers[i]) /\ timers[i].st # "firing"

\* C3 witness: two power-lost events, then a restore before either expiry; both
\* timers have ended without a call.
C3_Witness ==
    /\ cleanRestore
    /\ Len(timers) >= 2
    /\ \A i \in DOMAIN timers : timers[i].pre /\ timers[i].st = "done"

\* C4: once stop() has completed (directly or through the signal handler), no
\* timer expiry calls shutdown().
C4_NoCallAfterStop ==
    afterStopCalls = 0

\* C5: while nobody stops the watchdog, a power-lost event handled while no
\* countdown is running leads to a shutdown() call by its timer, exactly once
\* and exactly when `timeout` has elapsed since the event, unless a
\* power-restored event cancels the timer first; with a single power-lost
\* event and nothing else, that is the only call.
C5_SingleLostFiresOnceAtTimeout ==
    /\ [](\A i \in DOMAIN timers :
            /\ timers[i].calls <= 1
            /\ timers[i].st = "firing" \/ timers[i].calls = 1 => timers[i].age = timeout)
    /\ [](Len(timers) = 1 => calls <= 1)
    /\ \A i \in 1 .. MaxTimers :
          (i \in DOMAIN timers /\ timers[i].behind = 0 /\ Live(timers[i]))
             ~> (i \in DOMAIN timers /\ (timers[i].calls = 1 \/ timers[i].pre))

\* C5 witness: one power-lost event, no other event, no stop; its timer has
\* called shutdown() once, `timeout` after it was started.
C5_Witness ==
    /\ Len(timers) = 1
    /\ timers[1].calls = 1 /\ timers[1].age = timeout /\ ~timers[1].pre
    /\ calls = 1 /\ ~stopped

\* C6: the timer of a duplicate power-lost event (one handled d after the
\* event that started the countdown still running, 0 < d < D) never calls
\* shutdown():
\* there is no call at d + D.
C6_DuplicateLostAddsNoCall ==
    \A i \in DOMAIN timers :
        (0 < timers[i].behind /\ timers[i].behind < timeout) => timers[i].calls = 0

\* A step in which power_change handles a power-restored event.
HandlesRestore ==
    \/ \E raw \in RawLines :
          /\ \E i \in 1 .. Len(raw) - 1 : raw[i] = "BACK" /\ raw[i + 1] = "NL"
          /\ \A i \in DOMAIN raw : raw[i] # "BAD"
          /\ ListenRead(raw)
    \/ gpioSetup /\ level = 1 /\ GpioCallback

\* C7: the number of shutdown() calls never decreases, and a power-restored
\* event handled after a timer has fired changes neither the calls made nor
\* the timers that made them, starts nothing and raises no error.
C7_RestoreAfterFireHasNoEffect ==
    [][/\ calls' >= calls
       /\ (calls > 0 /\ HandlesRestore) =>
             /\ calls' = calls
             /\ lerr' = lerr /\ merr' = merr
             /\ Len(timers') = Len(timers)
             /\ \A i \in DOMAIN timers :
                   /\ timers'[i].calls = timers[i].calls
                   /\ timers[i].st = "done" => timers'[i].st = "done"]_vars

\* C7 witness: a power-restored event was handled after every shutdown() call
\* made so far (no call since the restore); the call of the fired timer still
\* counts and no thread has raised.
C7_Witness ==
    /\ calls >= 1 /\ runCalls = 0 /\ ~lerr /\ ~merr
    /\ \E i \in DOMAIN timers : timers[i].calls = 1 /\ timers[i].st = "done"

\* C8: every timer calls shutdown() at most once, and a timer whose
\* cancellation completed before its expiry check calls it zero times.
C8_AtMostOnceNoneIfCancelled ==
    \A i \in DOMAIN timers :
        /\ timers[i].calls <= 1
        /\ timers[i].pre => timers[i].calls = 0 /\ timers[i].st # "firing"

\* C8 witness: of two timers, one was cancelled while waiting and ended without
\* a call, the other fired once.
C8_Witness ==
    \E i, j \in DOMAIN timers :
        /\ timers[i].pre /\ timers[i].st = "done" /\ timers[i].calls = 0
        /\ timers[j].calls = 1

\* A raw line that holds the given sentinel followed by its newline.
HoldsSentinel(raw, sentinel) ==
    \E i \in 1 .. Len(raw) - 1 : raw[i] = sentinel /\ raw[i + 1] = "NL"

\* A raw line that is not valid UTF-8.
InvalidUtf8(raw) ==
    \E i \in DOMAIN raw : raw[i] = "BAD"

\* C9: reading a line that holds neither sentinel leaves the arbiter as it
\* is: no timer is created, none is cancelled, shutdown() is not called.
C9_UnparseableLineLeavesArbiter ==
    [][\A raw \in RawLines :
          (~HoldsSentinel(raw, "BACK") /\ ~HoldsSentinel(raw, "SHUT") /\ ListenRead(raw))
             => UNCHANGED <<timers, calls, runCalls>>]_vars

\* C9 witness: a line without sentinel was read while a countdown was running;
\* the countdown is still running and the listener is back in its loop.
C9_Witness ==
    /\ lastRaw # <<>>
    /\ ~HoldsSentinel(lastRaw, "BACK") /\ ~HoldsSentinel(lastRaw, "SHUT")
    /\ ~InvalidUtf8(lastRaw)
    /\ lpc = "loop" /\ ~lerr
    /\ \E i \in DOMAIN timers : Live(timers[i])

\* C10: a line that fails to decode changes no timer and calls nothing, the
\* listener goes on with its loop without an error, and a sentinel line read
\* right after it is handled by power_change: a power-lost line starts a timer,
\* a power-back line cancels them all.
C10_DecodeFailureNotFatal ==
    [][\A raw \in RawLines :
          /\ (InvalidUtf8(raw) /\ ListenRead(raw))
                => UNCHANGED <<timers, calls, runCalls>> /\ lpc' = "loop" /\ ~lerr'
          /\ (lastRaw # <<>> /\ InvalidUtf8(lastRaw) /\ ~InvalidUtf8(raw) /\ ListenRead(raw))
                => /\ HoldsSentinel(raw, "SHUT") /\ ~HoldsSentinel(raw, "BACK")
                        => /\ Len(timers') = Len(timers) + 1
                           /\ Live(timers'[Len(timers')])
                   /\ HoldsSentinel(raw, "BACK")
                        => /\ Len(timers') = Len(timers)
                           /\ \A i \in DOMAIN timers' : timers'[i].fin]_vars

\* C10 witness: after a decode failure the listener is alive and a sentinel
\* line read right after the failure has reached power_change.
C10_Witness ==
    /\ recovered /\ ~lerr
    /\ lastRaw # <<>> /\ ~InvalidUtf8(lastRaw)
    /\ HoldsSentinel(lastRaw, "BACK") \/ HoldsSentinel(lastRaw, "SHUT")

\* C11: the teardown path (the signal handler with its stop(), and the end
\* of the script) never calls shutdown() and touches no timer; as long as no
\* power-lost event has been handled, the number of shutdown() calls is 0,
\* stopped or not.
C11_TeardownNeverShutsDown ==
    /\ [][((\E sig \in {"SIGINT", "SIGTERM"} : Signal(sig)) \/ MainExit)
             => (calls' = calls /\ timers' = timers)]_vars
    /\ [](Len(timers) = 0 => calls = 0)

\* C11 witness: the watchdog was stopped by a signal and the process has
\* ended without any power-lost event handled; shutdown() was never called.
C11_Witness ==
    /\ stopped /\ mainPc = "exited" /\ ~merr
    /\ Len(timers) = 0 /\ calls = 0

\* C12: the signal handler completes without an error, for SIGINT and for
\* SIGTERM, the first time and every time after: no run of signal() lets an
\* exception escape into the main thread.
C12_SignalStopAlwaysSucceeds ==
    [][\A sig \in {"SIGINT", "SIGTERM"} : Signal(sig) => (merr' = merr /\ ~merr')]_vars

\* C13: a failure to open the serial port during start() is not fatal: start()
\* stays in its start-up (to retry) and no exception escapes.
C13_OpenFailureNotFatal ==
    [][(StartOpenFail \/ StartSerialFail) => (~merr' /\ mainPc' = "start")]_vars

\* A state with no countdown: no timer is waiting uncancelled and none is
\* about to call shutdown().
Idle ==
    \A i \in DOMAIN timers : ~Live(timers[i]) /\ timers[i].st # "firing"

\* C14: a power-restored event handled while the watchdog is Idle is a no-op:
\* the timers are as they were, still Idle, and shutdown() is not called.
C14_RestoreWhileIdleIsNoOp ==
    [][(Idle /\ HandlesRestore) => (timers' = timers /\ Idle' /\ calls' = calls)]_vars

\* C14 witness: a power-back line was handled before any power-lost event;
\* there is no timer and no call (serial), or the callback read the pin high
\* with no timer ever started (gpio).
C14_Witness ==
    /\ Len(timers) = 0 /\ calls = 0 /\ ~lerr
    /\ \/ lastRaw = <<"BACK", "NL">>
       \/ variant = "gpio" /\ gpioSetup /\ ~cbPending /\ level = 1 /\ sinceEdge <= bounce

\* C16: a level transition that is reversed within the bounce window never
\* reaches the arbiter: whenever the pin changes level again less than `bounce`
\* after an edge, power_change has not run on the level it is leaving.
C16_ShortTransitionNeverReachesArbiter ==
    [][(PinEdge /\ gpioSetup /\ sinceEdge < bounce) => ~reached]_vars

\* C17: the callback of an accepted edge handles the edge by its direction: an
\* edge to high cancels the timers and starts none, an edge to low starts a
\* timer, whatever the pin does before the callback runs.
C17_EdgeClassifiedByDirection ==
    [][(gpioSetup /\ GpioCallback) =>
          /\ edgeLevel = 1 => /\ Len(timers') = Len(timers)
                              /\ \A i \in DOMAIN timers' : timers'[i].fin
          /\ edgeLevel = 0 => Len(timers') = Len(timers) + 1]_vars

\* C18: once stop() has closed the port the listener ends at its next loop
\* check and never fails: the listener thread of a stopped watchdog is never
\* left crashed by an error.
C18_ListenerEndsCleanlyAfterStop ==
    (variant = "serial" /\ stopped) => (lpc # "crashed" /\ ~lerr)

\* C19: after a termination signal the watchdog stays stopped, also when the
\* signal arrives while start() is still running: no power event is handled
\* any more, so no timer is ever added once stop() has run.
C19_StaysStoppedAfterSignal ==
    [][stopped => Len(timers') <= Len(timers)]_vars

\* C20: shutdown() is called only by a timer that expired a full delay after
\* its power-lost event with no power-restored event handled in between (the
\* timer is still uncancelled when it calls), and the number of calls never
\* exceeds the number of power-lost events handled.
C20_ShutdownOnlyByUncancelledExpiry ==
    /\ [][\A i \in DOMAIN timers :
            (i \in DOMAIN timers' /\ timers'[i].calls > timers[i].calls)
                => (timers[i].age = timeout /\ ~timers[i].fin)]_vars
    /\ [](calls <= Len(timers))

============================================================================
